---- MODULE Spec2Model ----
(***************************************************************************)
(* coldpack: the archive creation pipeline (core/archiver.py), the scoped  *)
(* file tracker (utils/filesystem.py), the layered verifier                *)
(* (core/verifier.py) and the PAR2 recovery adapter (utils/par2.py).       *)
(*                                                                         *)
(* A file name is the sequence of its dot-separated components             *)
(* ("A.tar.zst" is <<"A","tar","zst">>), a path is the sequence of its     *)
(* names.  The file system maps each path of a finite universe to 0 when   *)
(* the path does not exist and otherwise to the number of the creation run *)
(* that wrote it.                                                          *)
(***************************************************************************)
EXTENDS Integers, Sequences, FiniteSets, TLC

MaxRuns == 2
MaxStuck == 1

\* ------------------------------------------------------------------ paths

Join(p, n) == Append(p, n)

Parent(p) == SubSeq(p, 1, Len(p) - 1)

NameOf(p) == p[Len(p)]

\* PurePath.stem: the name without its last suffix; a name that ends with a
\* dot, or whose only dot is the leading one, has no suffix
Stem(n) ==
  IF Len(n) > 1 /\ n[Len(n)] /= "" /\ ~(Len(n) = 2 /\ n[1] = "")
  THEN SubSeq(n, 1, Len(n) - 1) ELSE n

StripTar(n) == IF Len(n) > 1 /\ n[Len(n)] = "tar" THEN SubSeq(n, 1, Len(n) - 1) ELSE n

AddSuffix(p, s) == Join(Parent(p), Append(NameOf(p), s))

Under(d, p) == Len(p) >= Len(d) /\ SubSeq(p, 1, Len(d)) = d

NoPath == <<>>

ArchiveName == <<"A">>

OutDir == << <<"out">> >>

TmpNames == <<"tmp1", "tmp2", "tmp3", "tmp4">>

TmpDir(r) == << <<TmpNames[r]>> >>

MetaName == <<"metadata">>

TomlName == <<"metadata", "toml">>

VolName(n) == n \o <<"vol000+01", "par2">>

TarPath == Join(OutDir, ArchiveName \o <<"tar">>)

OUTPUT_FORMAT == <<"tar", "zst">>

WithOutputFormat(p) == Join(Parent(p), Stem(NameOf(p)) \o OUTPUT_FORMAT)

FlatArchive == Join(OutDir, ArchiveName \o <<"tar", "zst">>)

ArchiveDir == Join(OutDir, ArchiveName)

MetadataDir == Join(ArchiveDir, MetaName)

TargetArchive == Join(ArchiveDir, ArchiveName \o <<"tar", "zst">>)

Algorithms == <<"sha256", "blake3">>

SidecarSuffixes == {"sha256", "blake3", "par2"}

\* the three places auto-discovery looks at, for a container path a
SameDirLoc(a) == Parent(a)

MetaLoc(a) == Join(Parent(a), MetaName)

StemMetaLoc(a) == Join(Join(Parent(a), StripTar(Stem(NameOf(a)))), MetaName)

SearchDirs(a) == <<SameDirLoc(a), MetaLoc(a), StemMetaLoc(a)>>

DirPaths ==
  {OutDir, ArchiveDir, MetadataDir, MetaLoc(FlatArchive), Join(ArchiveDir, ArchiveName),
   StemMetaLoc(TargetArchive)} \cup {TmpDir(r) : r \in 1..(MaxRuns + 1)}

ContainerPaths == {FlatArchive, TargetArchive}

FilePaths ==
  {TarPath} \cup ContainerPaths
  \cup {Join(d, NameOf(FlatArchive) \o <<s>>) :
          d \in {OutDir, ArchiveDir, MetadataDir, MetaLoc(FlatArchive), StemMetaLoc(TargetArchive)},
          s \in SidecarSuffixes}
  \cup {Join(d, VolName(NameOf(FlatArchive))) : d \in {OutDir, MetadataDir}}
  \cup {Join(d, TomlName) : d \in {ArchiveDir, MetadataDir, StemMetaLoc(TargetArchive)}}

Paths == DirPaths \cup FilePaths

\* ------------------------------------------------------------ file system

Exists(f, p) == p \in Paths /\ f[p] /= 0

WriteAll(f, P, c) == [p \in Paths |-> IF p \in P THEN c ELSE f[p]]

Mkdir(f, d, c) == IF f[d] = 0 THEN WriteAll(f, {d}, c) ELSE f

Rename(f, src, dst) ==
  [p \in Paths |-> IF p = dst THEN f[src] ELSE IF p = src THEN 0 ELSE f[p]]

RECURSIVE RenameAll(_, _, _)
RenameAll(f, srcs, dsts) ==
  IF srcs = <<>> THEN f
  ELSE RenameAll(Rename(f, Head(srcs), Head(dsts)), Tail(srcs), Tail(dsts))

Reverse(s) == [i \in 1..Len(s) |-> s[Len(s) + 1 - i]]

Range(s) == {s[i] : i \in 1..Len(s)}

\* ------------------------------------------------- safe_file_operations

track_file(files, p) == Append(files, p)

track_directory(dirs, d) == Append(dirs, d)

\* file_path.unlink() guarded by exists(); an OSError is logged and swallowed
RECURSIVE CleanFiles(_, _, _, _, _)
CleanFiles(f, files, stuck, log, failed) ==
  IF files = <<>> THEN [fs |-> f, log |-> log, failed |-> failed]
  ELSE LET p == Head(files) IN
    IF ~Exists(f, p) THEN CleanFiles(f, Tail(files), stuck, log, failed)
    ELSE IF p \in stuck \/ p \in DirPaths
      THEN CleanFiles(f, Tail(files), stuck, Append(log, p), failed \cup {p})
      ELSE CleanFiles(WriteAll(f, {p}, 0), Tail(files), stuck, Append(log, p), failed)

\* shutil.rmtree(dir_path) guarded by exists(); it raises OSError when the
\* directory or something below it cannot be removed (nothing is removed then)
RmtreeFails(f, d, stuck) ==
  d \in FilePaths \/ \E q \in stuck : Under(d, q) /\ Exists(f, q)

Rmtree(f, d) == [p \in Paths |-> IF Under(d, p) THEN 0 ELSE f[p]]

RECURSIVE CleanDirs(_, _, _, _, _)
CleanDirs(f, dirs, stuck, log, failed) ==
  IF dirs = <<>> THEN [fs |-> f, log |-> log, failed |-> failed]
  ELSE LET d == Head(dirs) IN
    IF ~Exists(f, d) THEN CleanDirs(f, Tail(dirs), stuck, log, failed)
    ELSE IF RmtreeFails(f, d, stuck)
      THEN CleanDirs(f, Tail(dirs), stuck, Append(log, d), failed \cup {d})
      ELSE CleanDirs(Rmtree(f, d), Tail(dirs), stuck, Append(log, d), failed)

\* a cleanup that removes the directories first, in registration order
_cleanup_created_files_dirs_first(f, files, dirs, stuck) ==
  LET a == CleanDirs(f, dirs, stuck, <<>>, {})
  IN CleanFiles(a.fs, files, stuck, a.log, a.failed)

_cleanup_created_files(f, files, dirs, stuck) ==
  LET a == CleanFiles(f, files, stuck, <<>>, {})
  IN CleanDirs(a.fs, Reverse(dirs), stuck, a.log, a.failed)

NoCleanup(f) == [fs |-> f, log |-> <<>>, failed |-> {}]

\* cleanup that runs for Exception subclasses only
__exit__OnlyException(exc, cleanup_on_error, f, files, dirs, stuck) ==
  IF exc = "Exception" /\ cleanup_on_error
  THEN _cleanup_created_files(f, files, dirs, stuck)
  ELSE NoCleanup(f)

\* cleanup at every end of the scope
__exit__Always(exc, cleanup_on_error, f, files, dirs, stuck) ==
  IF cleanup_on_error
  THEN _cleanup_created_files(f, files, dirs, stuck)
  ELSE NoCleanup(f)

\* __exit__: exc is "none" when the body ended without an exception
__exit__(exc, cleanup_on_error, f, files, dirs, stuck) ==
  IF exc /= "none" /\ cleanup_on_error
  THEN _cleanup_created_files(f, files, dirs, stuck)
  ELSE NoCleanup(f)

\* ---------------------------------------------------------- verifier

Outcomes == {"pass", "fail", "raise"}

\* what the external checks answer in one run: py7zz.test_archive, the
\* digest comparison per algorithm, `par2 verify`
Oracles == [gate : Outcomes, sha256 : Outcomes, blake3 : Outcomes, par2 : Outcomes]

AllPass == [gate |-> "pass", sha256 |-> "pass", blake3 |-> "pass", par2 |-> "pass"]

VERIFICATION_LAYERS == <<"7z_integrity", "sha256_hash", "blake3_hash", "par2_recovery">>

LayerOf(algorithm) == IF algorithm = "sha256" THEN "sha256_hash" ELSE "blake3_hash"

VerificationResult(layer, success, message) ==
  [layer |-> layer, success |-> success, message |-> message]

\* HashVerifier.verify_file_hash: True/False from the digest comparison; it
\* raises when the sidecar cannot be read
verify_file_hash(f, hash_file_path, algorithm, o) ==
  IF ~Exists(f, hash_file_path) THEN "raise"
  ELSE IF algorithm = "sha256" THEN o.sha256 ELSE o.blake3

verify_7z_integrity(o) ==
  IF o.gate = "pass" THEN VerificationResult("7z_integrity", TRUE, <<"7z", "7z integrity check passed">>)
  ELSE IF o.gate = "fail"
    THEN VerificationResult("7z_integrity", FALSE, <<"7z", "7z integrity check failed">>)
    ELSE VerificationResult("7z_integrity", FALSE, <<"7z", "Unexpected verification error">>)

HashResult(algorithm, outcome) ==
  IF outcome = "pass"
  THEN VerificationResult(LayerOf(algorithm), TRUE, <<algorithm, "hash verification passed">>)
  ELSE IF outcome = "fail"
    THEN VerificationResult(LayerOf(algorithm), FALSE, <<algorithm, "hash verification failed">>)
    ELSE VerificationResult(LayerOf(algorithm), FALSE, <<algorithm, "verification error">>)

\* a loop that gives up at the first algorithm that does not pass
RECURSIVE HashLoopFailFast(_, _, _)
HashLoopFailFast(f, hash_files, o) ==
  IF hash_files = <<>> THEN <<>>
  ELSE LET algorithm == Head(hash_files)[1]
           outcome == verify_file_hash(f, Head(hash_files)[2], algorithm, o)
       IN IF outcome /= "pass" THEN <<HashResult(algorithm, outcome)>>
          ELSE <<HashResult(algorithm, outcome)>> \o HashLoopFailFast(f, Tail(hash_files), o)

\* hash_files is the ordered map algorithm -> sidecar path, a sequence of pairs
RECURSIVE HashLoop(_, _, _)
HashLoop(f, hash_files, o) ==
  IF hash_files = <<>> THEN <<>>
  ELSE LET algorithm == Head(hash_files)[1]
           hash_file_path == Head(hash_files)[2]
       IN <<HashResult(algorithm, verify_file_hash(f, hash_file_path, algorithm, o))>>
            \o HashLoop(f, Tail(hash_files), o)

\* returns a Python list of results, one per algorithm of the map
verify_hash_files(f, hash_files, o) ==
  [kind |-> "list",
   items |-> HashLoop(f, hash_files, o),
   calls |-> [i \in 1..Len(hash_files) |-> LayerOf(hash_files[i][1])]]

\* a verify that reports damage whatever the exit code
verify_recovery_files_never_true(f, par2_file, o) ==
  IF ~Exists(f, par2_file) THEN "raise" ELSE IF o.par2 = "raise" THEN "raise" ELSE "fail"

\* PAR2Manager.verify_recovery_files: exit code 0 is True, another exit code
\* is False, a missing file or a timeout raises
verify_recovery_files(f, par2_file, o) ==
  IF ~Exists(f, par2_file) THEN "raise" ELSE o.par2

verify_par2_recovery(f, par2_file, o) ==
  LET success == verify_recovery_files(f, par2_file, o) IN
  IF success = "pass" THEN VerificationResult("par2_recovery", TRUE, <<"par2", "PAR2 verification passed">>)
  ELSE IF success = "fail"
    THEN VerificationResult("par2_recovery", FALSE, <<"par2", "PAR2 verification failed">>)
    ELSE VerificationResult("par2_recovery", FALSE, <<"par2", "PAR2 verification error">>)

NotProvided(algorithm) ==
  VerificationResult(LayerOf(algorithm), FALSE, <<algorithm, "hash file not provided">>)

Par2NotProvided == VerificationResult("par2_recovery", FALSE, <<"par2", "PAR2 file not provided">>)

\* a verification run: the results it returns and the checks it invoked
VRun(results, calls) == [results |-> results, calls |-> calls]

verify_complete(f, hash_files, par2_file, o) ==
  LET gate == verify_7z_integrity(o)
      hashes == verify_hash_files(f, hash_files, o)
      hash_results ==
        IF hash_files /= <<>> THEN hashes.items
        ELSE <<NotProvided("sha256"), NotProvided("blake3")>>
      hash_calls == IF hash_files /= <<>> THEN hashes.calls ELSE <<>>
      par2_results ==
        IF par2_file /= NoPath THEN <<verify_par2_recovery(f, par2_file, o)>>
        ELSE <<Par2NotProvided>>
      par2_calls == IF par2_file /= NoPath THEN <<"par2_recovery">> ELSE <<>>
  IN IF ~gate.success THEN VRun(<<gate>>, <<"7z_integrity">>)
     ELSE VRun(<<gate>> \o hash_results \o par2_results,
               <<"7z_integrity">> \o hash_calls \o par2_calls)

FilterHashFiles(hash_files, skip_layers) ==
  SelectSeq(hash_files, LAMBDA e : LayerOf(e[1]) \notin skip_layers)

\* a run that hands over to verify_complete and forgets the skip-set
_verify_complete_with_skip_forgotten(f, hash_files, par2_file, skip_layers, o) ==
  verify_complete(f, hash_files, par2_file, o)

\* a run that records the gate failure and goes on
_verify_complete_with_skip_no_gate(f, hash_files, par2_file, skip_layers, o) ==
  LET gate == verify_7z_integrity(o)
      filtered_hash_files == FilterHashFiles(hash_files, skip_layers)
      hashes == verify_hash_files(f, filtered_hash_files, o)
      par2_results ==
        IF "par2_recovery" \in skip_layers THEN <<>>
        ELSE IF par2_file /= NoPath THEN <<verify_par2_recovery(f, par2_file, o)>>
        ELSE <<Par2NotProvided>>
      par2_calls ==
        IF "par2_recovery" \notin skip_layers /\ par2_file /= NoPath
        THEN <<"par2_recovery">> ELSE <<>>
      head == IF "7z_integrity" \notin skip_layers THEN <<gate>> ELSE <<>>
      head_calls == IF "7z_integrity" \notin skip_layers THEN <<"7z_integrity">> ELSE <<>>
  IN VRun(head \o hashes.items \o par2_results, head_calls \o hashes.calls \o par2_calls)

_verify_complete_with_skip(f, hash_files, par2_file, skip_layers, o) ==
  LET gated == "7z_integrity" \notin skip_layers
      gate == verify_7z_integrity(o)
      filtered_hash_files ==
        IF hash_files /= <<>>
           /\ ~("sha256_hash" \in skip_layers /\ "blake3_hash" \in skip_layers)
        THEN FilterHashFiles(hash_files, skip_layers)
        ELSE <<>>
      hashes == verify_hash_files(f, filtered_hash_files, o)
      hash_results == IF filtered_hash_files /= <<>> THEN hashes.items ELSE <<>>
      hash_calls == IF filtered_hash_files /= <<>> THEN hashes.calls ELSE <<>>
      par2_results ==
        IF "par2_recovery" \in skip_layers THEN <<>>
        ELSE IF par2_file /= NoPath THEN <<verify_par2_recovery(f, par2_file, o)>>
        ELSE <<Par2NotProvided>>
      par2_calls ==
        IF "par2_recovery" \notin skip_layers /\ par2_file /= NoPath
        THEN <<"par2_recovery">> ELSE <<>>
      head == IF gated THEN <<gate>> ELSE <<>>
      head_calls == IF gated THEN <<"7z_integrity">> ELSE <<>>
  IN IF gated /\ ~gate.success THEN VRun(<<gate>>, <<"7z_integrity">>)
     ELSE VRun(head \o hash_results \o par2_results, head_calls \o hash_calls \o par2_calls)

SidecarAt(d, a, s) == Join(d, Append(NameOf(a), s))

\* one pass of the loop over hash_search_locations
DiscoverStep(f, a, skip_layers, hash_files, d) ==
  LET has(alg) == \E i \in 1..Len(hash_files) : hash_files[i][1] = alg
      sha == IF Exists(f, SidecarAt(d, a, "sha256")) /\ "sha256_hash" \notin skip_layers
                /\ ~has("sha256")
             THEN <<(<<"sha256", SidecarAt(d, a, "sha256")>>)>> ELSE <<>>
      blake == IF Exists(f, SidecarAt(d, a, "blake3")) /\ "blake3_hash" \notin skip_layers
                  /\ ~has("blake3")
               THEN <<(<<"blake3", SidecarAt(d, a, "blake3")>>)>> ELSE <<>>
  IN hash_files \o sha \o blake

_discover_hash_files(f, a, skip_layers) ==
  LET locs == SearchDirs(a)
      h1 == DiscoverStep(f, a, skip_layers, <<>>, locs[1])
      h2 == DiscoverStep(f, a, skip_layers, h1, locs[2])
  IN DiscoverStep(f, a, skip_layers, h2, locs[3])

\* discovery that looks next to the container only
_discover_par2_file_same_dir(f, a, skip_layers) ==
  IF "par2_recovery" \notin skip_layers /\ Exists(f, SidecarAt(SameDirLoc(a), a, "par2"))
  THEN SidecarAt(SameDirLoc(a), a, "par2") ELSE NoPath

_discover_par2_file(f, a, skip_layers) ==
  LET locs == SearchDirs(a)
      found == {i \in 1..3 : Exists(f, SidecarAt(locs[i], a, "par2"))}
  IN IF "par2_recovery" \in skip_layers \/ found = {} THEN NoPath
     ELSE SidecarAt(locs[CHOOSE i \in found : \A j \in found : i <= j], a, "par2")

\* the first path of a list that exists and is not in `unloadable`
FirstLoaded(f, paths, unloadable) ==
  LET found == {i \in 1..Len(paths) : Exists(f, paths[i]) /\ paths[i] \notin unloadable}
  IN IF found = {} THEN NoPath ELSE paths[CHOOSE i \in found : \A j \in found : i <= j]

\* a descriptor search that starts next to the container
_discover_metadata_same_dir_first(f, a, unloadable) ==
  FirstLoaded(f, [i \in 1..3 |-> Join(SearchDirs(a)[i], TomlName)], unloadable)

\* metadata_paths: the metadata directory, then <stem>/metadata, then the
\* directory of the container (the legacy place)
metadata_paths(a) ==
  <<Join(MetaLoc(a), TomlName), Join(StemMetaLoc(a), TomlName), Join(SameDirLoc(a), TomlName)>>

\* _discover_metadata: the first descriptor that exists and loads; one that
\* exists and does not load (`unloadable`) is passed over.  The result is
\* modelled by the path the descriptor was loaded from.
_discover_metadata(f, a, unloadable) == FirstLoaded(f, metadata_paths(a), unloadable)

verify_auto(f, a, skip_layers, o) ==
  _verify_complete_with_skip(f, _discover_hash_files(f, a, skip_layers),
                             _discover_par2_file(f, a, skip_layers), skip_layers, o)

\* ------------------------------------------------------------ archiver

VARIABLES fs, fs0, pc, run, opts, created_files, created_dirs, hash_files, par2_files,
          metadata, result, toolsOk, cleanup, vrun, rrun, cli, settings, naming, vagain

vars == <<fs, fs0, pc, run, opts, created_files, created_dirs, hash_files, par2_files,
          metadata, result, toolsOk, cleanup, vrun, rrun, cli, settings, naming, vagain>>

createVars == <<fs, fs0, pc, run, opts, created_files, created_dirs, hash_files, par2_files,
                metadata, result, toolsOk, cleanup>>

Raises == {"none", "Exception", "KeyboardInterrupt"}

\* the redundancy percentages a caller passes: the default and another one
Redundancies == {10, 20}

ProcessingOptions ==
  [source_kind : {"dir", "file"}, verify_integrity : BOOLEAN, generate_par2 : BOOLEAN,
   par2_redundancy : Redundancies, force_overwrite : BOOLEAN, cleanup_on_error : BOOLEAN]

DefaultOptions ==
  [source_kind |-> "dir", verify_integrity |-> TRUE, generate_par2 |-> TRUE,
   par2_redundancy |-> 10, force_overwrite |-> FALSE, cleanup_on_error |-> TRUE]

EmptyFs == [p \in Paths |-> 0]

\* PAR2Settings(): the archiver's par2_settings when the caller passes none, as
\* the archive command does
PAR2Settings == [redundancy_percent |-> 10]

\* PAR2Manager(redundancy_percent): the redundancy par2 is run with (-r)
PAR2Manager(redundancy_percent) == [redundancy_percent |-> redundancy_percent]

NoMetadata == [present |-> FALSE, archive_name |-> <<>>, par2_settings |-> PAR2Settings]

NoResult ==
  [status |-> "none", exc |-> "none", stage |-> "none", archive |-> NoPath,
   hash_files |-> <<>>, par2_files |-> <<>>, metadata_file |-> NoPath]

\* ArchiveResult(success=False, ...) returned by the `except Exception` clause
Failure(stage) == [NoResult EXCEPT !.status = "failed", !.exc = "Exception", !.stage = stage]

\* an exception that leaves create_archive
Raised(exc, stage) == [NoResult EXCEPT !.status = "raised", !.exc = exc, !.stage = stage]

\* oserrors counts the deletions that have failed with OSError so far
NoCleanupRecord == [ran |-> FALSE, log |-> <<>>, failed |-> {}, oserrors |-> 0]

NoVRun ==
  [mode |-> "none", archive |-> NoPath, hash_files |-> <<>>, par2_file |-> NoPath,
   skip_layers |-> {}, oracle |-> AllPass, results |-> <<>>, calls |-> <<>>]

NoRRun ==
  [phase |-> "none", par2_file |-> NoPath, before |-> "pass", tool |-> "pass",
   after |-> "pass", success |-> FALSE, message |-> "", calls |-> <<>>, wrote |-> FALSE]

\* one run of a command of the command line: its arguments and its exit code
NoCli == [command |-> "none", args |-> <<>>, exit |-> "none"]

\* the compression settings of one archiver and the size of its source; sizes
\* are counted in KiB
NoSettings ==
  [source_size |-> 0, manual_settings |-> FALSE, level0 |-> 0, level |-> 0,
   optimized |-> [raised |-> FALSE, level |-> 0], compressor |-> 0, sevenzip |-> <<>>,
   applied |-> {}]

\* the source of one create_archive call, the archive_name argument (<<>> is
\* None) and the name the call settles on
NoNaming ==
  [source_name |-> <<>>, source_kind |-> "dir", given |-> <<>>, archive_name |-> <<>>,
   applied |-> FALSE]

\* a second verification run of the same verifier with the same arguments
NoVAgain == [ran |-> FALSE, par2_manager |-> "none", results |-> <<>>, calls |-> <<>>]

\* a body of create_archive whose steps are out of order: the hash sidecars
\* come before the tar and the compression
NextStageUnordered(stage, o) ==
  CASE stage = "extract" -> "hash"
    [] stage = "hash" -> "tar"
    [] stage = "tar" -> "compress"
    [] stage = "compress" -> IF o.generate_par2 THEN "par2" ELSE "metadata"
    [] stage = "par2" -> "metadata"
    [] stage = "metadata" -> "organize"
    [] OTHER -> "done"

AfterPar2(o) == IF o.verify_integrity THEN "final_verify" ELSE "metadata"

AfterHash(o) == IF o.generate_par2 THEN "par2" ELSE AfterPar2(o)

\* the order of the steps in the body of create_archive
NextStage(stage, o) ==
  CASE stage = "extract" -> "tar"
    [] stage = "tar" -> IF o.verify_integrity THEN "verify_tar" ELSE "compress"
    [] stage = "verify_tar" -> "compress"
    [] stage = "compress" -> IF o.verify_integrity THEN "verify_zstd" ELSE "hash"
    [] stage = "verify_zstd" -> "hash"
    [] stage = "hash" -> IF o.verify_integrity THEN "verify_hash" ELSE AfterHash(o)
    [] stage = "verify_hash" -> AfterHash(o)
    [] stage = "par2" -> AfterPar2(o)
    [] stage = "final_verify" -> "metadata"
    [] stage = "metadata" -> "organize"
    [] OTHER -> "done"

\* `except Exception` inside the with block returns a failure result, so the
\* scope sees no exception; anything else (KeyboardInterrupt) passes through
ExcSeenByExit(raised) == IF raised = "Exception" THEN "none" ELSE raised

StuckSets(raised, f, files, dirs) ==
  IF ExcSeenByExit(raised) = "none" \/ ~opts.cleanup_on_error THEN {{}}
  ELSE {S \in SUBSET {p \in Range(files) \cup Range(dirs) : Exists(f, p)} :
          cleanup.oserrors + Cardinality(S) <= MaxStuck}

\* how a step of the body ends: on to the next step, or out of the scope
StageEnd(stage, raised, f1, files1, dirs1, res) ==
  /\ created_files' = files1
  /\ created_dirs' = dirs1
  /\ IF raised = "none" /\ res.status = "none"
     THEN /\ pc' = NextStage(stage, opts)
          /\ fs' = f1
          /\ UNCHANGED <<result, cleanup>>
     ELSE \E stuck \in StuckSets(raised, f1, files1, dirs1) :
            LET exc == ExcSeenByExit(raised)
                c == __exit__(exc, opts.cleanup_on_error, f1, files1, dirs1, stuck)
            IN /\ pc' = "done"
               /\ fs' = c.fs
               /\ cleanup' = [ran |-> exc /= "none" /\ opts.cleanup_on_error,
                              log |-> c.log, failed |-> c.failed,
                              oserrors |-> cleanup.oserrors + Cardinality(c.failed)]
               /\ result' = IF raised = "none" THEN res
                            ELSE IF raised = "Exception" THEN Failure(stage)
                            ELSE Raised(raised, stage)

\* ColdStorageArchiver(processing_options): the options belong to the archiver
\* object and stay as constructed over its create_archive calls; the calls
\* archive the same source, whose stem is the archive name
\* (par2_redundancy is read by step 9 only, so it is varied only for the
\* archivers that generate a recovery set)
InitCreate ==
  /\ fs = EmptyFs
  /\ fs0 = EmptyFs
  /\ pc = "idle"
  /\ run = 0
  /\ opts \in ProcessingOptions
  /\ ~opts.generate_par2 => opts.par2_redundancy = DefaultOptions.par2_redundancy
  /\ created_files = <<>>
  /\ created_dirs = <<>>
  /\ hash_files = <<>>
  /\ par2_files = <<>>
  /\ metadata = NoMetadata
  /\ result = NoResult
  /\ toolsOk = TRUE
  /\ cleanup = NoCleanupRecord
  /\ vrun = NoVRun
  /\ rrun = NoRRun
  /\ cli = NoCli
  /\ settings = NoSettings
  /\ naming = NoNaming
  /\ vagain = NoVAgain

\* create_archive up to the with block: the checks that raise to the caller
CreateStart ==
  /\ pc \in {"idle", "done"}
  /\ run < MaxRuns
  /\ \E pre \in {"ok", "nosrc", "nospace"} :
       LET o == opts
           f1 == IF pre = "nosrc" THEN fs ELSE Mkdir(fs, OutDir, run + 1)
           archive_path == Join(OutDir, ArchiveName \o <<"tar", "zst">>)
           exc == IF pre = "nosrc" THEN "FileNotFoundError"
                  ELSE IF Exists(f1, archive_path) /\ ~o.force_overwrite
                    THEN "ArchivingError: already exists"
                  ELSE IF pre = "nospace" THEN "ArchivingError: disk space"
                  ELSE "none"
       IN /\ run' = run + 1
          /\ opts' = o
          /\ fs0' = fs
          /\ fs' = f1
          /\ pc' = IF exc = "none" THEN "extract" ELSE "done"
          /\ result' = IF exc = "none" THEN NoResult ELSE Raised(exc, "validate")
          /\ toolsOk' = (pre = "ok")
          /\ created_files' = <<>>
          /\ created_dirs' = <<>>
          /\ hash_files' = <<>>
          /\ par2_files' = <<>>
          /\ metadata' = NoMetadata
          /\ cleanup' = [NoCleanupRecord EXCEPT !.oserrors = cleanup.oserrors]
  /\ UNCHANGED <<vrun, rrun, cli, settings, naming, vagain>>

\* step 1, _extract_source (and step 2, which touches no file)
ExtractSource ==
  /\ pc = "extract"
  /\ \E raised \in Raises, wrote \in BOOLEAN :
       /\ raised = "none" => wrote
       /\ opts.source_kind = "dir" => wrote /\ raised /= "Exception"
       /\ LET temp_dir == TmpDir(run)
              made == opts.source_kind = "file" /\ wrote
              f1 == IF made THEN Mkdir(fs, temp_dir, run) ELSE fs
              dirs1 == IF made THEN track_directory(created_dirs, temp_dir) ELSE created_dirs
          IN StageEnd("extract", raised, f1, created_files, dirs1, NoResult)
       /\ toolsOk' = (toolsOk /\ raised = "none")
  /\ UNCHANGED <<fs0, run, opts, hash_files, par2_files, metadata, vrun, rrun, cli, settings, naming, vagain>>

\* step 3, _create_tar_archive
CreateTar ==
  /\ pc = "tar"
  /\ \E raised \in Raises, wrote \in BOOLEAN :
       /\ raised = "none" => wrote
       /\ LET tar_path == Join(OutDir, ArchiveName \o <<"tar">>)
              files1 == track_file(created_files, tar_path)
              f1 == IF wrote THEN WriteAll(fs, {tar_path}, run) ELSE fs
          IN StageEnd("tar", raised, f1, files1, created_dirs, NoResult)
       /\ toolsOk' = (toolsOk /\ raised = "none")
  /\ UNCHANGED <<fs0, run, opts, hash_files, par2_files, metadata, vrun, rrun, cli, settings, naming, vagain>>

\* steps 4 and 6, _verify_tar_integrity and _verify_zstd_integrity
VerifyStage ==
  /\ pc \in {"verify_tar", "verify_zstd"}
  /\ \E raised \in Raises :
       /\ StageEnd(pc, raised, fs, created_files, created_dirs, NoResult)
       /\ toolsOk' = (toolsOk /\ raised = "none")
  /\ UNCHANGED <<fs0, run, opts, hash_files, par2_files, metadata, vrun, rrun, cli, settings, naming, vagain>>

\* step 5, _compress_archive
CompressArchive ==
  /\ pc = "compress"
  /\ \E raised \in Raises, wrote \in BOOLEAN :
       /\ raised = "none" => wrote
       /\ LET tar_path == TarPath
              archive_path == WithOutputFormat(tar_path)
              files1 == track_file(created_files, archive_path)
              f1 == IF ~wrote THEN fs
                    ELSE IF raised = "none"
                      THEN WriteAll(WriteAll(fs, {archive_path}, run), {tar_path}, 0)
                      ELSE WriteAll(fs, {archive_path}, run)
          IN StageEnd("compress", raised, f1, files1, created_dirs, NoResult)
       /\ toolsOk' = (toolsOk /\ raised = "none")
  /\ UNCHANGED <<fs0, run, opts, hash_files, par2_files, metadata, vrun, rrun, cli, settings, naming, vagain>>

\* generate_hash_files: one sidecar per algorithm next to the archive
HashFilesFor(archive_path) ==
  [i \in 1..Len(Algorithms) |-> <<Algorithms[i], AddSuffix(archive_path, Algorithms[i])>>]

PathsOf(hf) == [i \in 1..Len(hf) |-> hf[i][2]]

\* step 7, _generate_hash_files: the sidecars are tracked after they are written
GenerateHashFiles ==
  /\ pc = "hash"
  /\ \E raised \in Raises, wrote \in BOOLEAN :
       /\ raised = "none" => wrote
       /\ LET hf == HashFilesFor(FlatArchive)
              f1 == IF wrote THEN WriteAll(fs, Range(PathsOf(hf)), run) ELSE fs
              files1 == IF raised = "none" THEN created_files \o PathsOf(hf) ELSE created_files
          IN /\ StageEnd("hash", raised, f1, files1, created_dirs, NoResult)
             /\ hash_files' = IF raised = "none" THEN hf ELSE hash_files
       /\ toolsOk' = (toolsOk /\ raised = "none")
  /\ UNCHANGED <<fs0, run, opts, par2_files, metadata, vrun, rrun, cli, settings, naming, vagain>>

HashOracles == {o \in Oracles : o.gate = "pass" /\ o.par2 = "pass"}

\* `result.success` where result is what the verifier returned: a list has no
\* attribute success, the AttributeError becomes an ArchivingError
SuccessOf(r) ==
  IF r.kind = "result" THEN [raised |-> FALSE, value |-> r.success]
  ELSE [raised |-> TRUE, value |-> FALSE]

_verify_hash_files(f, hf, o) ==
  LET r == SuccessOf(verify_hash_files(f, hf, o))
  IN IF r.raised \/ ~r.value THEN "Exception" ELSE "none"

\* step 8
VerifyHashFiles ==
  /\ pc = "verify_hash"
  /\ \E o \in HashOracles, interrupt \in BOOLEAN :
       LET raised == IF interrupt THEN "KeyboardInterrupt"
                     ELSE _verify_hash_files(fs, hash_files, o)
       IN /\ StageEnd("verify_hash", raised, fs, created_files, created_dirs, NoResult)
          /\ toolsOk' = (toolsOk /\ ~interrupt /\ o = AllPass)
  /\ UNCHANGED <<fs0, run, opts, hash_files, par2_files, metadata, vrun, rrun, cli, settings, naming, vagain>>

\* _find_par2_files: the recovery files of the archive, sorted by name
Par2FilesFor(archive_path) ==
  <<AddSuffix(archive_path, "par2"), Join(Parent(archive_path), VolName(NameOf(archive_path)))>>

\* step 9, _generate_par2_files: the files are tracked after par2 has written them
GeneratePar2Files ==
  /\ pc = "par2"
  /\ \E raised \in Raises, wrote \in BOOLEAN :
       /\ raised = "none" => wrote
       /\ LET pf == Par2FilesFor(FlatArchive)
              f1 == IF wrote THEN WriteAll(fs, Range(pf), run) ELSE fs
              files1 == IF raised = "none" THEN created_files \o pf ELSE created_files
          IN /\ StageEnd("par2", raised, f1, files1, created_dirs, NoResult)
             /\ par2_files' = IF raised = "none" THEN pf ELSE par2_files
       /\ toolsOk' = (toolsOk /\ raised = "none")
  /\ UNCHANGED <<fs0, run, opts, hash_files, metadata, vrun, rrun, cli, settings, naming, vagain>>

FailedLayers(results) == SelectSeq(results, LAMBDA r : ~r.success)

_perform_final_verification(f, hf, pf, o) ==
  LET par2_file == IF pf /= <<>> THEN pf[1] ELSE NoPath
      results == verify_complete(f, hf, par2_file, o).results
  IN IF FailedLayers(results) /= <<>> THEN "Exception" ELSE "none"

\* step 10.  It runs only with verify_integrity, after step 8, and step 8 with
\* verify_integrity always raises (SuccessOf), so no run of create_archive gets
\* here: the step is kept for reference and is not a disjunct of NextCreate.
FinalVerification ==
  /\ pc = "final_verify"
  /\ \E o \in Oracles, interrupt \in BOOLEAN :
       LET raised == IF interrupt THEN "KeyboardInterrupt"
                     ELSE _perform_final_verification(fs, hash_files, par2_files, o)
       IN /\ StageEnd("final_verify", raised, fs, created_files, created_dirs, NoResult)
          /\ toolsOk' = (toolsOk /\ ~interrupt /\ o = AllPass)
  /\ UNCHANGED <<fs0, run, opts, hash_files, par2_files, metadata, vrun, rrun, cli, settings, naming, vagain>>

\* step 11, _create_metadata: it catches its own exceptions
CreateMetadata ==
  /\ pc = "metadata"
  /\ \E raised \in {"none", "KeyboardInterrupt"} :
       /\ StageEnd("metadata", raised, fs, created_files, created_dirs, NoResult)
       /\ metadata' = IF raised = "none"
                      THEN [present |-> TRUE,
                            archive_name |-> StripTar(Stem(NameOf(FlatArchive))),
                            par2_settings |-> PAR2Settings]
                      ELSE metadata
       /\ toolsOk' = (toolsOk /\ raised = "none")
  /\ UNCHANGED <<fs0, run, opts, hash_files, par2_files, vrun, rrun, cli, settings, naming, vagain>>

Retarget(paths, d) == [i \in 1..Len(paths) |-> Join(d, NameOf(paths[i]))]

\* step 12, _organize_output_files, and the return of the success result.  An
\* Exception inside is caught there and the paths that were passed in are
\* returned, with no metadata file.
OrganizeOutputFiles ==
  /\ pc = "organize"
  /\ \E raised \in Raises, wrote \in BOOLEAN :
       /\ raised = "none" => wrote
       /\ LET archive_path == FlatArchive
              archive_dir == Join(Parent(archive_path), metadata.archive_name)
              metadata_dir == Join(archive_dir, MetaName)
              target_archive == Join(archive_dir, metadata.archive_name \o <<"tar", "zst">>)
              target_hash == Retarget(PathsOf(hash_files), metadata_dir)
              target_par2 == Retarget(par2_files, metadata_dir)
              target_metadata_file == Join(metadata_dir, TomlName)
              fDirs == Mkdir(Mkdir(fs, archive_dir, run), metadata_dir, run)
              fMoved == RenameAll(Rename(fDirs, archive_path, target_archive),
                                  PathsOf(hash_files) \o par2_files, target_hash \o target_par2)
              f1 == IF ~wrote THEN fs
                    ELSE IF raised = "none" THEN WriteAll(fMoved, {target_metadata_file}, run)
                    ELSE fMoved
              dirs1 == IF wrote THEN created_dirs \o <<archive_dir, metadata_dir>>
                       ELSE created_dirs
              moved == <<target_archive>> \o target_hash \o target_par2
              files1 == IF ~wrote THEN created_files
                        ELSE IF raised = "none" THEN created_files \o moved \o <<target_metadata_file>>
                        ELSE created_files \o moved
              organized ==
                [NoResult EXCEPT !.status = "success", !.archive = target_archive,
                   !.hash_files = [i \in 1..Len(hash_files) |-> <<hash_files[i][1], target_hash[i]>>],
                   !.par2_files = target_par2, !.metadata_file = target_metadata_file]
              fallback ==
                [NoResult EXCEPT !.status = "success", !.archive = archive_path,
                   !.hash_files = hash_files, !.par2_files = par2_files]
              res == IF raised = "none" THEN organized
                     ELSE IF raised = "Exception" THEN fallback ELSE NoResult
              escaping == IF raised = "KeyboardInterrupt" THEN raised ELSE "none"
          IN StageEnd("organize", escaping, f1, files1, dirs1, res)
       /\ toolsOk' = (toolsOk /\ raised = "none")
  /\ UNCHANGED <<fs0, run, opts, hash_files, par2_files, metadata, vrun, rrun, cli, settings, naming, vagain>>

NextCreate ==
  \/ CreateStart
  \/ ExtractSource
  \/ CreateTar
  \/ VerifyStage
  \/ CompressArchive
  \/ GenerateHashFiles
  \/ VerifyHashFiles
  \/ GeneratePar2Files
  \/ CreateMetadata
  \/ OrganizeOutputFiles

SpecCreate == InitCreate /\ [][NextCreate]_vars

\* ------------------------------------------------ claims on create_archive

UnderOutput == {p \in Paths : Under(OutDir, p) /\ p /= OutDir}

LaterStages == {"verify_zstd", "hash", "verify_hash", "par2", "final_verify", "metadata", "organize"}

\* C1: once create_archive has returned a failure result for a stage that
\* failed after earlier stages wrote files, nothing this run created is left
\* under the output path.
C1_NoResidueAfterFailure ==
  (pc = "done" /\ result.status = "failed" /\ result.stage \in LaterStages
     /\ opts.cleanup_on_error)
    => \A p \in UnderOutput : fs[p] /= run

Tracked == Range(created_files) \cup Range(created_dirs)

OrganizedFiles == {p \in FilePaths : Under(ArchiveDir, p)}

\* C6: without force_overwrite an archive that already exists is never
\* replaced: the call raises "already exists" and the files of the existing
\* archive stay as they were.
C6_ExistingArchiveKept ==
  (run >= 1 /\ ~opts.force_overwrite /\ Exists(fs0, TargetArchive) /\ toolsOk)
    => /\ \A p \in OrganizedFiles : Exists(fs0, p) => fs[p] = fs0[p]
       /\ pc = "done" => (result.status = "raised"
                          /\ result.exc = "ArchivingError: already exists")

AllLayersPass(results) == \A i \in 1..Len(results) : results[i].success

\* C7: with every tool succeeding and every check reporting valid, a run with
\* the default options (verification on, recovery on) returns success, and a
\* full verification right after it passes on every layer.
C7_DefaultCreateSucceeds ==
  (pc = "done" /\ toolsOk /\ opts.verify_integrity /\ opts.generate_par2
     /\ ~opts.force_overwrite /\ opts.cleanup_on_error /\ result.stage /= "validate")
    => /\ result.status = "success"
       /\ AllLayersPass(verify_auto(fs, result.archive, {}, AllPass).results)

\* the archive directory holds what this run produced and nothing else
FreshLayout ==
  /\ pc = "done"
  /\ result.status = "success"
  /\ result.metadata_file /= NoPath
  /\ \A p \in Paths : Under(ArchiveDir, p) => fs[p] \in {0, run}

ContextPar2(r) == IF r.par2_files /= <<>> THEN r.par2_files[1] ELSE NoPath

Triples(results) ==
  [i \in 1..Len(results) |-> <<results[i].layer, results[i].success, results[i].message>>]

\* C10: on the layout a creation run produced, verify_auto with the container
\* path alone returns the same layer results (layer, success, message) as
\* verify_complete with the hash-file map and recovery file of that run.
C10_AutoEqualsContext ==
  FreshLayout =>
    \A o \in Oracles :
      Triples(verify_auto(fs, result.archive, {}, o).results)
        = Triples(verify_complete(fs, result.hash_files, ContextPar2(result), o).results)

C10_Witness == FreshLayout /\ result.par2_files /= <<>> /\ Len(result.hash_files) = 2

\* ------------------------------------------------------ verification runs

\* in how many of the three search places one sidecar lies at most
MaxCopies == 1

VerifiedArchive == TargetArchive

\* which of the three search places hold a copy of each sidecar
Placements ==
  {pl \in [SidecarSuffixes -> SUBSET (1..3)] :
     \A s \in SidecarSuffixes : Cardinality(pl[s]) <= MaxCopies}

LayoutFs(pl) ==
  LET files == {VerifiedArchive}
                 \cup UNION {{SidecarAt(SearchDirs(VerifiedArchive)[i], VerifiedArchive, s) :
                                i \in pl[s]} : s \in SidecarSuffixes}
  IN [p \in Paths |->
        IF p \in files \/ (p \in DirPaths /\ \E q \in files : Under(p, q)) THEN 1 ELSE 0]

InitVerify ==
  /\ \E pl \in Placements : fs = LayoutFs(pl)
  /\ fs0 = EmptyFs
  /\ pc = "idle"
  /\ run = 0
  /\ opts = DefaultOptions
  /\ created_files = <<>>
  /\ created_dirs = <<>>
  /\ hash_files = <<>>
  /\ par2_files = <<>>
  /\ metadata = NoMetadata
  /\ result = NoResult
  /\ toolsOk = TRUE
  /\ cleanup = NoCleanupRecord
  /\ vrun = NoVRun
  /\ rrun = NoRRun
  /\ cli = NoCli
  /\ settings = NoSettings
  /\ naming = NoNaming
  /\ vagain = NoVAgain

\* the hash-file maps and recovery files a caller may pass to verify_complete
ContextMaps ==
  LET sha == <<"sha256", SidecarAt(MetaLoc(VerifiedArchive), VerifiedArchive, "sha256")>>
      blake == <<"blake3", SidecarAt(MetaLoc(VerifiedArchive), VerifiedArchive, "blake3")>>
  IN {<<>>, <<sha>>, <<blake>>, <<sha, blake>>}

ContextPar2Files == {NoPath, SidecarAt(MetaLoc(VerifiedArchive), VerifiedArchive, "par2")}

\* verify_complete(archive_path, hash_files, par2_file)
VerifyComplete ==
  /\ vrun.mode = "none"
  /\ Exists(fs, VerifiedArchive)
  /\ \E hf \in ContextMaps, p2 \in ContextPar2Files, o \in Oracles :
       LET r == verify_complete(fs, hf, p2, o)
       IN vrun' = [mode |-> "context", archive |-> VerifiedArchive, hash_files |-> hf,
                   par2_file |-> p2, skip_layers |-> {}, oracle |-> o,
                   results |-> r.results, calls |-> r.calls]
  /\ UNCHANGED <<createVars, rrun, cli, settings, naming, vagain>>

\* verify_auto(archive_path, skip_layers)
VerifyAuto ==
  /\ vrun.mode = "none"
  /\ Exists(fs, VerifiedArchive)
  /\ \E skip_layers \in SUBSET Range(VERIFICATION_LAYERS), o \in Oracles :
       LET r == verify_auto(fs, VerifiedArchive, skip_layers, o)
       IN vrun' = [mode |-> "auto", archive |-> VerifiedArchive,
                   hash_files |-> _discover_hash_files(fs, VerifiedArchive, skip_layers),
                   par2_file |-> _discover_par2_file(fs, VerifiedArchive, skip_layers),
                   skip_layers |-> skip_layers, oracle |-> o,
                   results |-> r.results, calls |-> r.calls]
  /\ UNCHANGED <<createVars, rrun, cli, settings, naming, vagain>>

NextVerify == VerifyComplete \/ VerifyAuto

SpecVerify == InitVerify /\ [][NextVerify]_vars

GateAttempted == vrun.mode /= "none" /\ "7z_integrity" \notin vrun.skip_layers

\* C3: when the container-integrity layer is attempted and fails or raises,
\* the run returns that one failed result and invokes no hash check and no
\* recovery-set check.
C3_GateFailureStops ==
  (GateAttempted /\ vrun.oracle.gate /= "pass")
    => /\ Len(vrun.results) = 1
       /\ vrun.results[1].layer = "7z_integrity"
       /\ ~vrun.results[1].success
       /\ vrun.calls = <<"7z_integrity">>

C3_Witness ==
  /\ vrun.mode = "auto"
  /\ vrun.skip_layers = {}
  /\ vrun.oracle.gate = "fail"
  /\ Len(vrun.hash_files) = 2
  /\ vrun.par2_file /= NoPath

GatePassed == GateAttempted /\ vrun.oracle.gate = "pass"

HasEntry(algorithm) == \E i \in 1..Len(vrun.hash_files) : vrun.hash_files[i][1] = algorithm

\* C4: after the gate has passed, every hash layer that is not skipped and has
\* no sidecar, and the recovery-set layer when it is not skipped and has no
\* recovery file, is in the results as a failed "not provided" layer.
C4_MissingSidecarReported ==
  GatePassed =>
    /\ \A algorithm \in Range(Algorithms) :
         (LayerOf(algorithm) \notin vrun.skip_layers /\ ~HasEntry(algorithm))
           => NotProvided(algorithm) \in Range(vrun.results)
    /\ ("par2_recovery" \notin vrun.skip_layers /\ vrun.par2_file = NoPath)
         => Par2NotProvided \in Range(vrun.results)

Attempted == FilterHashFiles(vrun.hash_files, vrun.skip_layers)

OwnOutcome(e) == verify_file_hash(fs, e[2], e[1], vrun.oracle)

ReportsOnce(layer, success) ==
  /\ Cardinality({i \in 1..Len(vrun.results) : vrun.results[i].layer = layer}) = 1
  /\ \E i \in 1..Len(vrun.results) :
       vrun.results[i].layer = layer /\ vrun.results[i].success = success

\* C5: after the gate has passed no layer failure stops the run: every hash
\* layer of the map and the recovery-set layer are attempted and each reports
\* the result of its own check, whatever the other layers did.
C5_LayersIndependent ==
  GatePassed =>
    /\ \A i \in 1..Len(Attempted) :
         /\ LayerOf(Attempted[i][1]) \in Range(vrun.calls)
         /\ ReportsOnce(LayerOf(Attempted[i][1]), OwnOutcome(Attempted[i]) = "pass")
    /\ ("par2_recovery" \notin vrun.skip_layers /\ vrun.par2_file /= NoPath)
         => /\ "par2_recovery" \in Range(vrun.calls)
            /\ ReportsOnce("par2_recovery",
                           verify_recovery_files(fs, vrun.par2_file, vrun.oracle) = "pass")

C5_Witness ==
  /\ GatePassed
  /\ Len(Attempted) = 2
  /\ OwnOutcome(Attempted[1]) = "fail"
  /\ OwnOutcome(Attempted[2]) = "pass"
  /\ vrun.par2_file /= NoPath
  /\ vrun.oracle.par2 = "pass"

\* ------------------------------------------------------------ repair runs

\* what `par2 verify` answers before the repair, what `par2 repair` answers,
\* and what `par2 verify` answers after it
RepairOracles == [before : Outcomes, tool : Outcomes, after : Outcomes]

\* the container's content once `par2 repair` has rewritten it
RepairedContent == MaxRuns + 1

\* a repair that takes any exit code for success
repair_file_any_exit_code(f, par2_file, tool) ==
  IF ~Exists(f, par2_file) THEN "raise" ELSE IF tool = "raise" THEN "raise" ELSE "pass"

\* PAR2Manager.repair_file: exit code 0 is True, another exit code is False,
\* a missing file or a timeout raises
repair_file(f, par2_file, tool) ==
  IF ~Exists(f, par2_file) THEN "raise" ELSE tool

\* ArchiveRepairer.verify_recovery_files: an exception counts as not valid
RepairerVerify(f, par2_file, outcome) ==
  verify_recovery_files(f, par2_file, [par2 |-> outcome]) = "pass"

\* _verify_before_repair
_verify_before_repair(f, par2_file, outcome) ==
  [needs_repair |-> ~RepairerVerify(f, par2_file, outcome),
   verification_passed |-> RepairerVerify(f, par2_file, outcome)]

\* _verify_after_repair
_verify_after_repair(f, par2_file, outcome) ==
  [success |-> RepairerVerify(f, par2_file, outcome),
   verification_passed |-> RepairerVerify(f, par2_file, outcome)]

RepairResult(r, success, message) ==
  [r EXCEPT !.phase = "done", !.success = success, !.message = message]

InitRepair ==
  /\ \E pl \in Placements : fs = LayoutFs(pl)
  /\ fs0 = fs
  /\ pc = "idle"
  /\ run = 0
  /\ opts = DefaultOptions
  /\ created_files = <<>>
  /\ created_dirs = <<>>
  /\ hash_files = <<>>
  /\ par2_files = <<>>
  /\ metadata = NoMetadata
  /\ result = NoResult
  /\ toolsOk = TRUE
  /\ cleanup = NoCleanupRecord
  /\ vrun = NoVRun
  /\ rrun = NoRRun
  /\ cli = NoCli
  /\ settings = NoSettings
  /\ naming = NoNaming
  /\ vagain = NoVAgain

\* repair_archive(par2_file): the existence check on the recovery file
RepairStart ==
  /\ rrun.phase = "none"
  /\ \E i \in 1..3, o \in RepairOracles :
       LET par2_file == SidecarAt(SearchDirs(VerifiedArchive)[i], VerifiedArchive, "par2")
           r == [rrun EXCEPT !.par2_file = par2_file, !.before = o.before,
                             !.tool = o.tool, !.after = o.after]
       IN rrun' = IF ~Exists(fs, par2_file)
                  THEN [r EXCEPT !.phase = "raised", !.message = "PAR2 file not found"]
                  ELSE [r EXCEPT !.phase = "before"]
  /\ UNCHANGED <<createVars, vrun, cli, settings, naming, vagain>>

\* repair_archive: the before-check decides whether a repair is needed
VerifyBeforeRepair ==
  /\ rrun.phase = "before"
  /\ LET r == [rrun EXCEPT !.calls = Append(@, "verify")]
     IN rrun' = IF _verify_before_repair(fs, rrun.par2_file, rrun.before).needs_repair
                THEN [r EXCEPT !.phase = "repair"]
                ELSE RepairResult(r, TRUE, "already valid")
  /\ UNCHANGED <<createVars, vrun, cli, settings, naming, vagain>>

\* repair_archive: the repair call; the tool rewrites the container when it
\* reports success and may have rewritten it when it does not
RepairFile ==
  /\ rrun.phase = "repair"
  /\ \E wrote \in BOOLEAN :
       LET repaired == repair_file(fs, rrun.par2_file, rrun.tool)
           r == [rrun EXCEPT !.calls = Append(@, "repair"), !.wrote = wrote]
       IN /\ repaired = "pass" => wrote
          /\ fs' = IF wrote THEN [fs EXCEPT ![VerifiedArchive] = RepairedContent] ELSE fs
          /\ rrun' = IF repaired = "raise" THEN RepairResult(r, FALSE, "repair failed")
                     ELSE IF repaired = "fail"
                       THEN RepairResult(r, FALSE, "repair operation failed")
                       ELSE [r EXCEPT !.phase = "after"]
  /\ UNCHANGED <<fs0, pc, run, opts, created_files, created_dirs, hash_files, par2_files,
                 metadata, result, toolsOk, cleanup, vrun, cli, settings, naming, vagain>>

\* repair_archive: the after-check confirms the repair
VerifyAfterRepair ==
  /\ rrun.phase = "after"
  /\ LET r == [rrun EXCEPT !.calls = Append(@, "verify")]
     IN rrun' = IF _verify_after_repair(fs, rrun.par2_file, rrun.after).success
                THEN RepairResult(r, TRUE, "successfully repaired")
                ELSE RepairResult(r, FALSE, "verification failed after repair")
  /\ UNCHANGED <<createVars, vrun, cli, settings, naming, vagain>>

NextRepair == RepairStart \/ VerifyBeforeRepair \/ RepairFile \/ VerifyAfterRepair

SpecRepair == InitRepair /\ [][NextRepair]_vars

RepairInvoked == "repair" \in Range(rrun.calls)

\* C8: a repair run that invoked the repair reports success only when the
\* repair call reported success and the after-check that followed confirmed
\* the container; a failed or raising repair call, or a failing after-check,
\* always gives a failure result.
C8_RepairSuccessNeedsBoth ==
  (rrun.phase = "done" /\ RepairInvoked)
    => /\ rrun.success => /\ rrun.tool = "pass"
                          /\ rrun.after = "pass"
                          /\ rrun.calls = <<"verify", "repair", "verify">>
       /\ (rrun.tool /= "pass" \/ rrun.after /= "pass") => ~rrun.success

C8_Witness ==
  /\ rrun.phase = "done"
  /\ RepairInvoked
  /\ rrun.tool = "pass"
  /\ rrun.after = "fail"
  /\ ~rrun.success

\* C9: when the before-check finds the container valid the run returns success
\* "already valid", the repair operation is not invoked and no file changes.
C9_ValidNeedsNoRepair ==
  (rrun.phase = "done" /\ rrun.before = "pass")
    => /\ rrun.success
       /\ rrun.message = "already valid"
       /\ ~RepairInvoked
       /\ fs = fs0

C9_Witness ==
  /\ rrun.phase = "done"
  /\ rrun.before = "pass"
  /\ rrun.tool = "pass"
  /\ rrun.calls = <<"verify">>

\* --------------------------------------------------------- the skip-set

Kept(seq, skip_layers, LayerName(_)) ==
  SelectSeq(seq, LAMBDA x : LayerName(x) \notin skip_layers)

ResultLayer(r) == r.layer

CallLayer(c) == c

\* the run on the same archive, same answers of the tools, empty skip-set
Unskipped == verify_auto(fs, vrun.archive, {}, vrun.oracle)

SkippedOnly ==
  /\ \A i \in 1..Len(vrun.results) : vrun.results[i].layer \notin vrun.skip_layers
  /\ \A i \in 1..Len(vrun.calls) : vrun.calls[i] \notin vrun.skip_layers

SameAsUnskipped ==
  /\ vrun.results = Kept(Unskipped.results, vrun.skip_layers, ResultLayer)
  /\ vrun.calls = Kept(Unskipped.calls, vrun.skip_layers, CallLayer)

\* C11 as stated: in verify_auto a skipped layer is neither attempted nor in
\* the results, and the other layers are attempted in the same order with the
\* same results as in the run with an empty skip-set.
C11_SkipLeavesRestAlone ==
  vrun.mode = "auto" => SkippedOnly /\ SameAsUnskipped

\* C11, amended: the same, except when the skipped layer is the gate and the
\* gate would have failed: the unskipped run then stops at the gate, while the
\* run that skips it goes on to the other layers.
C11_SkipLeavesRestAloneUnlessGate ==
  vrun.mode = "auto"
    => /\ SkippedOnly
       /\ ("7z_integrity" \in vrun.skip_layers /\ vrun.oracle.gate /= "pass")
            \/ SameAsUnskipped

C11_Witness ==
  /\ vrun.mode = "auto"
  /\ vrun.skip_layers = {"sha256_hash"}
  /\ vrun.oracle.gate = "pass"
  /\ Len(Unskipped.results) = 4
  /\ Len(vrun.results) = 3

\* ------------------------------------------------- the verify command

\* the names of ExitCodes that cli.py uses
ExitNames ==
  {"SUCCESS", "FILE_NOT_FOUND", "COMPRESSION_FAILED", "EXTRACTION_FAILED",
   "VERIFICATION_FAILED", "GENERAL_ERROR"}

\* layouts with sidecars next to the container or in metadata/ beside it
CliPlacements == {pl \in [SidecarSuffixes -> SUBSET (1..2)] : TRUE}

InitCliVerify ==
  /\ \E pl \in CliPlacements, present \in BOOLEAN :
       fs = IF present THEN LayoutFs(pl) ELSE EmptyFs
  /\ fs0 = fs
  /\ pc = "idle"
  /\ run = 0
  /\ opts = DefaultOptions
  /\ created_files = <<>>
  /\ created_dirs = <<>>
  /\ hash_files = <<>>
  /\ par2_files = <<>>
  /\ metadata = NoMetadata
  /\ result = NoResult
  /\ toolsOk = TRUE
  /\ cleanup = NoCleanupRecord
  /\ vrun = NoVRun
  /\ rrun = NoRRun
  /\ cli = NoCli
  /\ settings = NoSettings
  /\ naming = NoNaming
  /\ vagain = NoVAgain

\* --hash-files and --par2-file as the operator may give them
CliHashArgs ==
  LET sha == SidecarAt(MetaLoc(VerifiedArchive), VerifiedArchive, "sha256")
      blake == SidecarAt(MetaLoc(VerifiedArchive), VerifiedArchive, "blake3")
  IN {<<>>, <<sha>>, <<sha, blake>>}

VerifyFlags == [no_sha256 : BOOLEAN, no_blake3 : BOOLEAN, no_par2 : BOOLEAN]

Suffix(p) == NameOf(p)[Len(NameOf(p))]

\* the hash file dictionary built from --hash-files, by suffix
RECURSIVE HashFileDict(_)
HashFileDict(paths) ==
  IF paths = <<>> THEN <<>>
  ELSE LET rest == HashFileDict(Tail(paths))
           algorithm == Suffix(Head(paths))
       IN IF algorithm \in Range(Algorithms)
          THEN <<<<algorithm, Head(paths)>>>>
                 \o SelectSeq(rest, LAMBDA e : e[1] /= algorithm)
          ELSE rest

\* the sidecars next to the archive, unless the layer is switched off
AutoDetectHashFiles(f, a, flags) ==
  (IF Exists(f, AddSuffix(a, "sha256")) /\ ~flags.no_sha256
   THEN <<<<"sha256", AddSuffix(a, "sha256")>>>> ELSE <<>>)
  \o (IF Exists(f, AddSuffix(a, "blake3")) /\ ~flags.no_blake3
      THEN <<<<"blake3", AddSuffix(a, "blake3")>>>> ELSE <<>>)

AutoDetectPar2(f, a, par2_file, flags) ==
  IF par2_file = NoPath /\ ~flags.no_par2 /\ Exists(f, AddSuffix(a, "par2"))
  THEN AddSuffix(a, "par2") ELSE par2_file

CliSkipLayers(flags) ==
  (IF flags.no_sha256 THEN {"sha256_hash"} ELSE {})
    \cup (IF flags.no_blake3 THEN {"blake3_hash"} ELSE {})
    \cup (IF flags.no_par2 THEN {"par2_recovery"} ELSE {})

\* coldpack verify <archive> [--hash-files] [--par2-file] [--no-<layer>]; the
\* flags --no-tar and --no-zstd only add names to skip_layers
CliVerify ==
  /\ cli.command = "none"
  /\ \E flags \in VerifyFlags, hash_args \in CliHashArgs, par2_arg \in ContextPar2Files,
        o \in Oracles :
       LET archive == VerifiedArchive
           given == HashFileDict(hash_args)
           hash_file_dict == IF given /= <<>> THEN given
                             ELSE AutoDetectHashFiles(fs, archive, flags)
           par2_file == AutoDetectPar2(fs, archive, par2_arg, flags)
           skip_layers == CliSkipLayers(flags)
           r == verify_complete(fs, hash_file_dict, par2_file, o)
           failed_results == SelectSeq(r.results, LAMBDA x : ~x.success)
       IN IF ~Exists(fs, archive)
          THEN /\ cli' = [command |-> "verify", args |-> <<flags, hash_args, par2_arg>>,
                          exit |-> "FILE_NOT_FOUND"]
               /\ vrun' = vrun
          ELSE /\ vrun' = [mode |-> "cli", archive |-> archive, hash_files |-> hash_file_dict,
                           par2_file |-> par2_file, skip_layers |-> skip_layers,
                           oracle |-> o, results |-> r.results, calls |-> r.calls]
               /\ cli' = [command |-> "verify", args |-> <<flags, hash_args, par2_arg>>,
                          exit |-> IF failed_results /= <<>> THEN "VERIFICATION_FAILED"
                                   ELSE "SUCCESS"]
  /\ UNCHANGED <<createVars, rrun, settings, naming, vagain>>

NextCliVerify == CliVerify

SpecCliVerify == InitCliVerify /\ [][NextCliVerify]_vars

\* C12: a layer the operator switches off with --no-<layer> is neither
\* attempted nor in the reported results, and the command does not exit with
\* VERIFICATION_FAILED unless a layer that is not switched off has failed.
C12_DisabledLayerIgnored ==
  (cli.command = "verify" /\ vrun.mode = "cli")
    => /\ \A i \in 1..Len(vrun.calls) : vrun.calls[i] \notin vrun.skip_layers
       /\ \A i \in 1..Len(vrun.results) : vrun.results[i].layer \notin vrun.skip_layers
       /\ cli.exit = "VERIFICATION_FAILED"
            => \E i \in 1..Len(vrun.results) :
                 ~vrun.results[i].success /\ vrun.results[i].layer \notin vrun.skip_layers

\* ------------------------------------------- more claims on create_archive

\* C13: when create_archive raises one of its validation errors (source not
\* found, archive already exists, insufficient disk space) the call has
\* created no file and no directory.
C13_ValidationBeforeAnyWrite ==
  (pc = "done" /\ result.status = "raised" /\ result.stage = "validate")
    => fs = fs0


\* the recovery set of the current run: _generate_par2_files runs
\* PAR2Manager(self.processing_options.par2_redundancy)
RecoverySetOf == PAR2Manager(opts.par2_redundancy)

\* C14: after a successful creation run that generated a recovery set, the
\* redundancy percentage recorded in the descriptor is the redundancy the
\* recovery set was generated with
C14_DescriptorRedundancyIsUsed ==
  (pc = "done" /\ result.status = "success" /\ metadata.present /\ par2_files /= <<>>)
    => metadata.par2_settings.redundancy_percent = RecoverySetOf.redundancy_percent


\* the body of the scope ended without an exception reaching the scope: it
\* returned the success result, or the failure result of its `except Exception`
ScopeEndedQuietly == pc = "done" /\ result.status \in {"success", "failed"}

\* C15: when the scope ends without an exception, the end of the scope
\* removes nothing: no tracked file or directory is touched by it
C15_QuietEndTouchesNothing ==
  ScopeEndedQuietly => cleanup.log = <<>> /\ cleanup.failed = {} /\ ~cleanup.ran

\* a quiet end with cleanup_on_error set and tracked files on disk
C15_Witness ==
  /\ ScopeEndedQuietly
  /\ opts.cleanup_on_error
  /\ \E p \in Range(created_files) : Exists(fs, p)
  /\ \E d \in Range(created_dirs) : Exists(fs, d)


\* ------------------------------------- the scope of safe_file_operations

MaxTracked == 2

\* what a body creates and registers while the scope is open
TrackerFiles == {TarPath, FlatArchive, AddSuffix(FlatArchive, "sha256")}

TrackerDirs == {TmpDir(1), ArchiveDir, MetadataDir}

\* _cleanup_created_files when a KeyboardInterrupt arrives before its
\* attempt number k: only OSError is caught in the two loops, so the
\* interrupt leaves them and the attempts from k on are never made
_cleanup_created_files_interrupted(f, files, dirs, stuck, k) ==
  LET n == k - 1
      nf == IF n < Len(files) THEN n ELSE Len(files)
      a == CleanFiles(f, SubSeq(files, 1, nf), stuck, <<>>, {})
  IN CleanDirs(a.fs, SubSeq(Reverse(dirs), 1, n - nf), stuck, a.log, a.failed)

\* the points of the cleanup at which an interrupt can arrive; 0 is none
InterruptPoints(files, dirs) == 0..(Len(files) + Len(dirs))

\* __exit__ with the operator's interrupt as an input of the cleanup
__exit__interruptible(exc, cleanup_on_error, f, files, dirs, stuck, k) ==
  IF exc /= "none" /\ cleanup_on_error /\ k /= 0
  THEN _cleanup_created_files_interrupted(f, files, dirs, stuck, k)
  ELSE __exit__(exc, cleanup_on_error, f, files, dirs, stuck)

\* safe_file_operations(cleanup_on_error), __enter__
InitTracker ==
  /\ fs = EmptyFs
  /\ fs0 = EmptyFs
  /\ pc = "scope"
  /\ run = 1
  /\ opts \in {o \in ProcessingOptions : /\ o.source_kind = DefaultOptions.source_kind
                                         /\ o.verify_integrity = DefaultOptions.verify_integrity
                                         /\ o.generate_par2 = DefaultOptions.generate_par2
                                         /\ o.par2_redundancy = DefaultOptions.par2_redundancy
                                         /\ o.force_overwrite = DefaultOptions.force_overwrite}
  /\ created_files = <<>>
  /\ created_dirs = <<>>
  /\ hash_files = <<>>
  /\ par2_files = <<>>
  /\ metadata = NoMetadata
  /\ result = NoResult
  /\ toolsOk = TRUE
  /\ cleanup = NoCleanupRecord
  /\ vrun = NoVRun
  /\ rrun = NoRRun
  /\ cli = NoCli
  /\ settings = NoSettings
  /\ naming = NoNaming
  /\ vagain = NoVAgain

\* the body writes a file and registers it
TrackFile ==
  /\ pc = "scope"
  /\ Len(created_files) < MaxTracked
  /\ \E p \in TrackerFiles \ Range(created_files) :
       /\ fs' = WriteAll(fs, {p}, run)
       /\ created_files' = track_file(created_files, p)
  /\ UNCHANGED <<fs0, pc, run, opts, created_dirs, hash_files, par2_files, metadata,
                 result, toolsOk, cleanup, vrun, rrun, cli, settings, naming, vagain>>

\* the body makes a directory and registers it
TrackDirectory ==
  /\ pc = "scope"
  /\ Len(created_dirs) < MaxTracked
  /\ \E d \in TrackerDirs \ Range(created_dirs) :
       /\ fs' = Mkdir(fs, d, run)
       /\ created_dirs' = track_directory(created_dirs, d)
  /\ UNCHANGED <<fs0, pc, run, opts, created_files, hash_files, par2_files, metadata,
                 result, toolsOk, cleanup, vrun, rrun, cli, settings, naming, vagain>>

\* the scope ends: __exit__ with the exception of the body, if any
ScopeExit ==
  /\ pc = "scope"
  /\ \E exc \in Raises, k \in InterruptPoints(created_files, created_dirs),
        stuck \in SUBSET (Range(created_files) \cup Range(created_dirs)) :
       /\ Cardinality(stuck) <= MaxStuck
       /\ (exc = "none" \/ ~opts.cleanup_on_error) => (k = 0 /\ stuck = {})
       /\ LET c == __exit__interruptible(exc, opts.cleanup_on_error, fs, created_files,
                                         created_dirs, stuck, k)
          IN /\ fs' = c.fs
             /\ cleanup' = [ran |-> exc /= "none" /\ opts.cleanup_on_error,
                            log |-> c.log, failed |-> c.failed,
                            oserrors |-> Cardinality(c.failed)]
             /\ result' = IF exc = "none" THEN NoResult ELSE Raised(exc, "none")
  /\ pc' = "done"
  /\ UNCHANGED <<fs0, run, opts, created_files, created_dirs, hash_files, par2_files,
                 metadata, toolsOk, vrun, rrun, cli, settings, naming, vagain>>

NextTracker == TrackFile \/ TrackDirectory \/ ScopeExit

SpecTracker == InitTracker /\ [][NextTracker]_vars

\* C16: once the cleanup has started, a deletion is attempted for every
\* tracked file and directory: whatever is tracked and still there when the
\* scope has ended was attempted, whether another deletion failed or the
\* operator interrupted during the cleanup
C16_CleanupRunsToCompletion ==
  (pc = "done" /\ cleanup.ran)
    => \A p \in Range(created_files) \cup Range(created_dirs) :
         Exists(fs, p) => p \in Range(cleanup.log)


\* ------------------------------------------- compression settings by size

\* sizes are counted in KiB
KiBPerMiB == 1024

KiBPerGiB == 1024 * KiBPerMiB

SMALL_SIZE == 100 * KiBPerMiB

MEDIUM_SIZE == KiBPerGiB

LARGE_SIZE == 5 * KiBPerGiB

\* validate_dictionary_size
valid_sizes == {"128k", "1m", "4m", "16m", "64m", "256m", "512m"}

\* SevenZipSettings(level, dictionary_size): the pair, or the validation error
\* of a dictionary size outside valid_sizes
SevenZipSettings(level, dictionary_size) ==
  IF dictionary_size \in valid_sizes THEN <<level, dictionary_size>>
  ELSE <<0, "ValidationError">>

\* optimize_7z_compression_settings(source_size): (level, dictionary_size)
optimize_7z_compression_settings(source_size) ==
  IF source_size < SMALL_SIZE THEN SevenZipSettings(3, "4m")
  ELSE IF source_size < MEDIUM_SIZE THEN SevenZipSettings(5, "16m")
  ELSE IF source_size < LARGE_SIZE THEN SevenZipSettings(7, "32m")
  ELSE SevenZipSettings(9, "64m")

\* the sizes tried: each threshold of the code and of the ladder with the
\* sizes next to it, and one size inside each tier
SizeThresholds ==
  {SMALL_SIZE, MEDIUM_SIZE, LARGE_SIZE, 256, KiBPerMiB, 8 * KiBPerMiB, 64 * KiBPerMiB,
   512 * KiBPerMiB, 2 * KiBPerGiB}

Sizes ==
  {0, 100, 500, 4 * KiBPerMiB, 32 * KiBPerMiB, 256 * KiBPerMiB, 4 * KiBPerGiB, 8 * KiBPerGiB}
  \cup UNION {{t - 1, t, t + 1} : t \in SizeThresholds}

\* CompressionSettings.level values a caller passes: a low one and the default
ZstdLevels == {3, 19}

\* what optimize_compression_settings(total_size) gives back to
\* _optimize_settings: settings with some level, or an exception
OptimizedSettings ==
  {o \in [raised : BOOLEAN, level : ZstdLevels] : o.raised => o.level = 19}

\* _optimize_settings: the optimized level when it differs from the current
\* one, None (some = FALSE) otherwise and after an exception
_optimize_settings(level, optimized) ==
  IF ~optimized.raised /\ optimized.level /= level
  THEN [some |-> TRUE, level |-> optimized.level]
  ELSE [some |-> FALSE, level |-> level]

\* ColdStorageArchiver(compression_settings): the compressor is built from the
\* caller's settings; manual_settings says that the caller pinned them
InitOptimize ==
  /\ fs = EmptyFs
  /\ fs0 = EmptyFs
  /\ pc = "idle"
  /\ run = 0
  /\ opts = DefaultOptions
  /\ created_files = <<>>
  /\ created_dirs = <<>>
  /\ hash_files = <<>>
  /\ par2_files = <<>>
  /\ metadata = NoMetadata
  /\ result = NoResult
  /\ toolsOk = TRUE
  /\ cleanup = NoCleanupRecord
  /\ vrun = NoVRun
  /\ rrun = NoRRun
  /\ cli = NoCli
  /\ naming = NoNaming
  /\ vagain = NoVAgain
  /\ \E size \in Sizes, manual \in BOOLEAN, level \in ZstdLevels, o \in OptimizedSettings :
       settings = [NoSettings EXCEPT !.source_size = size, !.manual_settings = manual,
                                     !.level0 = level, !.level = level,
                                     !.optimized = o, !.compressor = level]

\* step 2 of create_archive: the optimized settings replace the archiver's
\* and a new compressor is built from them
OptimizeSettings ==
  /\ "create_archive" \notin settings.applied
  /\ LET optimized_settings == _optimize_settings(settings.level, settings.optimized)
     IN settings' = [settings EXCEPT
                       !.level = IF optimized_settings.some THEN optimized_settings.level ELSE @,
                       !.compressor = IF optimized_settings.some THEN optimized_settings.level
                                      ELSE @,
                       !.applied = @ \cup {"create_archive"}]
  /\ UNCHANGED <<createVars, vrun, rrun, cli, naming, vagain>>

\* a call of optimize_7z_compression_settings with the size of the source
Optimize7z ==
  /\ "optimize_7z" \notin settings.applied
  /\ settings' = [settings EXCEPT
                    !.sevenzip = optimize_7z_compression_settings(settings.source_size),
                    !.applied = @ \cup {"optimize_7z"}]
  /\ UNCHANGED <<createVars, vrun, rrun, cli, naming, vagain>>

NextOptimize == OptimizeSettings \/ Optimize7z

SpecOptimize == InitOptimize /\ [][NextOptimize]_vars

\* C17: the compression settings a caller pinned are the ones create_archive
\* compresses with: after the optimization step the archiver's level and the
\* compressor's level are the caller's
C17_PinnedProfileUnchanged ==
  ("create_archive" \in settings.applied /\ settings.manual_settings)
    => settings.level = settings.level0 /\ settings.compressor = settings.level0

\* the ladder of (level, dictionary size) by size tier, a size on a threshold
\* belonging to the upper tier
Ladder(size) ==
  IF size < 256 THEN <<1, "128k">>
  ELSE IF size < KiBPerMiB THEN <<3, "1m">>
  ELSE IF size < 8 * KiBPerMiB THEN <<5, "4m">>
  ELSE IF size < 64 * KiBPerMiB THEN <<6, "16m">>
  ELSE IF size < 512 * KiBPerMiB THEN <<7, "64m">>
  ELSE IF size < 2 * KiBPerGiB THEN <<9, "256m">>
  ELSE <<9, "512m">>

\* C18: for settings that are not pinned, the resolver gives the pair of the
\* ladder for the size of the source
C18_LadderBySize ==
  ("optimize_7z" \in settings.applied /\ ~settings.manual_settings)
    => settings.sevenzip = Ladder(settings.source_size)


\* ------------------------------------------------ the archive command

\* the command builds ProcessingOptions without force_overwrite and
\* cleanup_on_error, which keep their defaults
InitCliArchive ==
  /\ InitCreate
  /\ opts.force_overwrite = DefaultOptions.force_overwrite
  /\ opts.cleanup_on_error = DefaultOptions.cleanup_on_error

\* typer.Exit is click's Exit, a RuntimeError: of what is raised inside the
\* try block only KeyboardInterrupt is no Exception
IsException(e) == e /= "KeyboardInterrupt"

\* what is raised inside the try block of the command, given what
\* create_archive returned or raised
RaisedInTry(res) ==
  IF res.status = "success" THEN "none"
  ELSE IF res.status = "failed" THEN "Exit: COMPRESSION_FAILED"
  ELSE res.exc

\* the two except clauses of the command
ArchiveExitCode(res) ==
  LET e == RaisedInTry(res)
  IN IF e = "none" THEN "SUCCESS"
     ELSE IF e = "KeyboardInterrupt" THEN "GENERAL_ERROR"
     ELSE IF IsException(e) THEN "GENERAL_ERROR"
     ELSE "COMPRESSION_FAILED"

\* coldpack archive <source> where the source does not exist: the command
\* exits before an archiver is built
CliArchiveMissing ==
  /\ pc = "idle"
  /\ cli.command = "none"
  /\ cli' = [command |-> "archive", args |-> <<run, "missing">>, exit |-> "FILE_NOT_FOUND"]
  /\ UNCHANGED <<createVars, vrun, rrun, settings, naming, vagain>>

\* coldpack archive <source>: the end of the command once create_archive has
\* returned or raised
CliArchiveExit ==
  /\ pc = "done"
  /\ cli.args /= <<run, "present">>
  /\ cli' = [command |-> "archive", args |-> <<run, "present">>,
             exit |-> ArchiveExitCode(result)]
  /\ UNCHANGED <<createVars, vrun, rrun, settings, naming, vagain>>

NextCliArchive == NextCreate \/ CliArchiveMissing \/ CliArchiveExit

SpecCliArchive == InitCliArchive /\ [][NextCliArchive]_vars

\* the archive command has ended for the current call of create_archive
ArchiveExited == cli.command = "archive" /\ pc = "done" /\ cli.args = <<run, "present">>

\* C19: each failure class has its own exit code: a missing input gives
\* file-not-found, an unsuccessful result of create_archive gives
\* compression-failed, and general-error is left to what create_archive raised
C19_ExitCodePerFailureClass ==
  /\ (cli.command = "archive" /\ cli.args = <<run, "missing">>) => cli.exit = "FILE_NOT_FOUND"
  /\ ArchiveExited =>
       /\ result.status = "success" <=> cli.exit = "SUCCESS"
       /\ result.status = "failed" <=> cli.exit = "COMPRESSION_FAILED"
       /\ result.status = "raised" <=> cli.exit = "GENERAL_ERROR"


\* -------------------------------------------------- the name of the archive

\* names of sources: a base followed by suffixes, and a name with a leading dot
SourceBases == {"data", "my", "v1"}

SourceSuffixes ==
  {<<>>, <<"7z">>, <<"zip">>, <<"txt">>, <<"gz">>, <<"project">>, <<"tar">>,
   <<"tar", "gz">>, <<"tar", "bz2">>, <<"tar", "xz">>, <<"tar", "zst">>,
   <<"backup", "tar", "gz">>}

SourceNames ==
  {<<b>> \o s : b \in SourceBases, s \in SourceSuffixes} \cup {<<"", "bashrc">>}

\* the archive_name argument of create_archive: None or a name
GivenNames == {<<>>, <<"custom">>}

\* create_archive(source, output_dir, archive_name): when no name is passed
\* the name is source_path.stem, for a file and for a directory alike
archive_name_of(source_name, given) == IF given = <<>> THEN Stem(source_name) ELSE given

InitNaming ==
  /\ fs = EmptyFs
  /\ fs0 = EmptyFs
  /\ pc = "idle"
  /\ run = 0
  /\ opts = DefaultOptions
  /\ created_files = <<>>
  /\ created_dirs = <<>>
  /\ hash_files = <<>>
  /\ par2_files = <<>>
  /\ metadata = NoMetadata
  /\ result = NoResult
  /\ toolsOk = TRUE
  /\ cleanup = NoCleanupRecord
  /\ vrun = NoVRun
  /\ rrun = NoRRun
  /\ cli = NoCli
  /\ settings = NoSettings
  /\ vagain = NoVAgain
  /\ \E n \in SourceNames, k \in {"dir", "file"}, g \in GivenNames :
       naming = [NoNaming EXCEPT !.source_name = n, !.source_kind = k, !.given = g]

\* the lines of create_archive that settle the name of the archive
DetermineArchiveName ==
  /\ ~naming.applied
  /\ naming' = [naming EXCEPT !.archive_name = archive_name_of(naming.source_name, naming.given),
                              !.applied = TRUE]
  /\ UNCHANGED <<createVars, vrun, rrun, cli, settings, vagain>>

NextNaming == DetermineArchiveName

SpecNaming == InitNaming /\ [][NextNaming]_vars

\* the compound archive extensions that are taken off as one
CompoundExtensions == {<<"tar", "gz">>, <<"tar", "bz2">>, <<"tar", "xz">>, <<"tar", "zst">>}

HasCompoundExtension(n) ==
  Len(n) > 2 /\ SubSeq(n, Len(n) - 1, Len(n)) \in CompoundExtensions

HasSingleExtension(n) == Len(n) > 1 /\ n[Len(n)] /= "" /\ ~(Len(n) = 2 /\ n[1] = "")

\* the default name: the base name of a directory; for a file the name
\* without one compound extension, else without one single extension, else
\* the name itself
DefaultName(kind, n) ==
  IF kind = "dir" THEN n
  ELSE IF HasCompoundExtension(n) THEN SubSeq(n, 1, Len(n) - 2)
  ELSE IF HasSingleExtension(n) THEN SubSeq(n, 1, Len(n) - 1)
  ELSE n

\* C20: when no name is passed, the archive is named by the default name of
\* its source
C20_DefaultArchiveName ==
  (naming.applied /\ naming.given = <<>>)
    => naming.archive_name = DefaultName(naming.source_kind, naming.source_name)


\* ------------------------------------------- two verification runs in a row

\* layouts with every sidecar in the same one of the three search places
ReverifyPlacements ==
  {pl \in [SidecarSuffixes -> SUBSET (1..3)] :
     \E i \in 1..3 : \A s \in SidecarSuffixes : pl[s] \subseteq {i}}

\* a verification that lets par2 write the container back
VerifierFsRepairing(f) == WriteAll(f, {VerifiedArchive}, RepairedContent)

\* what a verification run leaves on disk: the container and the sidecars are
\* opened for reading and par2 is run with `verify`, so nothing is written
VerifierFs(f) == f

\* self.par2_manager: built by the first par2 check of a verifier and kept
par2_manager_after(par2_manager, calls) ==
  IF par2_manager = "none" /\ \E i \in 1..Len(calls) : calls[i] = "par2_recovery"
  THEN "PAR2Manager" ELSE par2_manager

InitReverify ==
  /\ \E pl \in ReverifyPlacements : fs = LayoutFs(pl)
  /\ fs0 = fs
  /\ pc = "idle"
  /\ run = 0
  /\ opts = DefaultOptions
  /\ created_files = <<>>
  /\ created_dirs = <<>>
  /\ hash_files = <<>>
  /\ par2_files = <<>>
  /\ metadata = NoMetadata
  /\ result = NoResult
  /\ toolsOk = TRUE
  /\ cleanup = NoCleanupRecord
  /\ vrun = NoVRun
  /\ rrun = NoRRun
  /\ cli = NoCli
  /\ settings = NoSettings
  /\ naming = NoNaming
  /\ vagain = NoVAgain

\* the first run: verify_complete or verify_auto of a new verifier
VerifyFirst ==
  /\ vrun.mode = "none"
  /\ Exists(fs, VerifiedArchive)
  /\ \/ \E hf \in ContextMaps, p2 \in ContextPar2Files, o \in Oracles :
          LET r == verify_complete(fs, hf, p2, o)
          IN vrun' = [mode |-> "context", archive |-> VerifiedArchive, hash_files |-> hf,
                      par2_file |-> p2, skip_layers |-> {}, oracle |-> o,
                      results |-> r.results, calls |-> r.calls]
     \/ \E skip_layers \in SUBSET Range(VERIFICATION_LAYERS), o \in Oracles :
          LET r == verify_auto(fs, VerifiedArchive, skip_layers, o)
          IN vrun' = [mode |-> "auto", archive |-> VerifiedArchive,
                      hash_files |-> _discover_hash_files(fs, VerifiedArchive, skip_layers),
                      par2_file |-> _discover_par2_file(fs, VerifiedArchive, skip_layers),
                      skip_layers |-> skip_layers, oracle |-> o,
                      results |-> r.results, calls |-> r.calls]
  /\ fs' = VerifierFs(fs)
  /\ UNCHANGED <<fs0, pc, run, opts, created_files, created_dirs, hash_files, par2_files,
                 metadata, result, toolsOk, cleanup, rrun, cli, settings, naming, vagain>>

\* the same call once more on the same verifier; the files are as the first
\* run left them, so the external checks answer as they did
VerifyAgain ==
  /\ vrun.mode /= "none"
  /\ ~vagain.ran
  /\ LET r == IF vrun.mode = "context"
              THEN verify_complete(fs, vrun.hash_files, vrun.par2_file, vrun.oracle)
              ELSE verify_auto(fs, vrun.archive, vrun.skip_layers, vrun.oracle)
     IN vagain' = [ran |-> TRUE, par2_manager |-> par2_manager_after("none", vrun.calls),
                   results |-> r.results, calls |-> r.calls]
  /\ fs' = VerifierFs(fs)
  /\ UNCHANGED <<fs0, pc, run, opts, created_files, created_dirs, hash_files, par2_files,
                 metadata, result, toolsOk, cleanup, vrun, rrun, cli, settings, naming>>

NextReverify == VerifyFirst \/ VerifyAgain

SpecReverify == InitReverify /\ [][NextReverify]_vars

SourceContent == MaxRuns + 2

\* a source whose parent is the output directory: the directory A, or the
\* archive file A.tar; its stem is the archive name
SourcePath(source_kind) == IF source_kind = "dir" THEN ArchiveDir ELSE TarPath

BesideFs(source_kind) ==
  LET source == IF source_kind = "dir" THEN {ArchiveDir, Join(ArchiveDir, ArchiveName)}
                ELSE {TarPath}
  IN [p \in Paths |-> IF p \in source \cup {OutDir} THEN SourceContent ELSE 0]

\* create_archive(source, source.parent)
InitCreateBeside ==
  /\ opts \in ProcessingOptions
  /\ ~opts.generate_par2 => opts.par2_redundancy = DefaultOptions.par2_redundancy
  /\ fs = BesideFs(opts.source_kind)
  /\ fs0 = fs
  /\ pc = "idle"
  /\ run = 0
  /\ created_files = <<>>
  /\ created_dirs = <<>>
  /\ hash_files = <<>>
  /\ par2_files = <<>>
  /\ metadata = NoMetadata
  /\ result = NoResult
  /\ toolsOk = TRUE
  /\ cleanup = NoCleanupRecord
  /\ vrun = NoVRun
  /\ rrun = NoRRun
  /\ cli = NoCli
  /\ settings = NoSettings
  /\ naming = NoNaming
  /\ vagain = NoVAgain

SpecCreateBeside == InitCreateBeside /\ [][NextCreate]_vars

\* C22: no step of create_archive, rollback included, deletes or changes what
\* is under the source path
C22_SourceUntouched ==
  \A p \in Paths :
    (Under(SourcePath(opts.source_kind), p) /\ BesideFs(opts.source_kind)[p] /= 0)
      => fs[p] = BesideFs(opts.source_kind)[p]


\* ------------------------------------------------ the order of the stages

\* the stages of a creation run in the order of the data flow: preparation,
\* container, self-test, hash sidecars, recovery set, full verification,
\* descriptor
StageOrder ==
  <<"extract", "tar", "verify_tar", "compress", "verify_zstd", "hash", "verify_hash",
    "par2", "final_verify", "metadata", "organize">>

StagePos(stage) == CHOOSE i \in 1..Len(StageOrder) : StageOrder[i] = stage

DescriptorPaths == {p \in Paths : NameOf(p) = TomlName}

RegisteredAt(registered, p) == CHOOSE i \in 1..Len(registered) : registered[i] = p

\* C24: in the rollback of a scope no tracked file is deleted after a tracked
\* directory has been removed, and of two tracked directories the one that was
\* registered later is removed first
C24_FilesThenDirsReversed ==
  cleanup.ran =>
    \A i, j \in 1..Len(cleanup.log) :
      i < j =>
        /\ ~(cleanup.log[i] \in Range(created_dirs) /\ cleanup.log[j] \in Range(created_files))
        /\ (cleanup.log[i] \in Range(created_dirs) /\ cleanup.log[j] \in Range(created_dirs))
             => RegisteredAt(created_dirs, cleanup.log[i]) > RegisteredAt(created_dirs, cleanup.log[j])

\* a rollback that deleted a file and then removed two directories
C24_Witness ==
  /\ cleanup.ran
  /\ \E i, j, k \in 1..Len(cleanup.log) :
       /\ i < j /\ j < k
       /\ cleanup.log[i] \in Range(created_files)
       /\ cleanup.log[j] \in Range(created_dirs)
       /\ cleanup.log[k] \in Range(created_dirs)
       /\ cleanup.failed = {}
       /\ \A p \in Range(created_files) \cup Range(created_dirs) : ~Exists(fs, p)


\* ------------------------------------------------ auto-discovery

\* the artifacts auto-discovery looks for: the sidecars and the descriptor
Artifacts == SidecarSuffixes \cup {"toml"}

\* artifact s in the i-th of the places SearchDirs
ArtifactAt(a, i, s) ==
  IF s = "toml" THEN Join(SearchDirs(a)[i], TomlName) ELSE SidecarAt(SearchDirs(a)[i], a, s)

\* every artifact may lie in any of the three places at once
DiscoverPlacements == [Artifacts -> SUBSET (1..3)]

DiscoverFs(pl) ==
  LET files == {VerifiedArchive}
                 \cup UNION {{ArtifactAt(VerifiedArchive, i, s) : i \in pl[s]} : s \in Artifacts}
  IN [p \in Paths |->
        IF p \in files \/ (p \in DirPaths /\ \E q \in files : Under(p, q)) THEN 1 ELSE 0]

DiscoverSkips == SUBSET {"sha256_hash", "blake3_hash", "par2_recovery"}

InitDiscover ==
  /\ \E pl \in DiscoverPlacements : fs = DiscoverFs(pl)
  /\ fs0 = fs
  /\ pc = "idle"
  /\ run = 0
  /\ opts = DefaultOptions
  /\ created_files = <<>>
  /\ created_dirs = <<>>
  /\ hash_files = <<>>
  /\ par2_files = <<>>
  /\ metadata = NoMetadata
  /\ result = NoResult
  /\ toolsOk = TRUE
  /\ cleanup = NoCleanupRecord
  /\ vrun = NoVRun
  /\ rrun = NoRRun
  /\ cli = NoCli
  /\ settings = NoSettings
  /\ naming = NoNaming
  /\ vagain = NoVAgain

\* the three discovery calls of verify_auto
Discover ==
  /\ vrun.mode = "none"
  /\ \E skip_layers \in DiscoverSkips,
        unloadable \in SUBSET {p \in Range(metadata_paths(VerifiedArchive)) : Exists(fs, p)} :
       vrun' = [mode |-> "discover", archive |-> VerifiedArchive,
                hash_files |-> _discover_hash_files(fs, VerifiedArchive, skip_layers),
                par2_file |-> _discover_par2_file(fs, VerifiedArchive, skip_layers),
                skip_layers |-> skip_layers, oracle |-> AllPass, results |-> <<>>,
                calls |-> <<>>, unloadable |-> unloadable,
                metadata_path |-> _discover_metadata(fs, VerifiedArchive, unloadable)]
  /\ UNCHANGED <<createVars, rrun, cli, settings, naming, vagain>>

NextDiscover == Discover

SpecDiscover == InitDiscover /\ [][NextDiscover]_vars

\* what discovery settled on for an artifact (NoPath: nothing)
Discovered(s) ==
  IF s = "toml" THEN vrun.metadata_path
  ELSE IF s = "par2" THEN vrun.par2_file
  ELSE IF \E i \in 1..Len(vrun.hash_files) : vrun.hash_files[i][1] = s
    THEN vrun.hash_files[CHOOSE i \in 1..Len(vrun.hash_files) : vrun.hash_files[i][1] = s][2]
  ELSE NoPath

SkipLayerOf(s) == IF s = "par2" THEN "par2_recovery" ELSE Append(s, "_hash")

\* the first place, in the order given, where a usable copy of s lies
FirstPlace(s, order, unusable) ==
  FirstLoaded(fs, [i \in 1..Len(order) |-> ArtifactAt(VerifiedArchive, order[i], s)], unusable)

ClaimedOrder == <<1, 2, 3>>

DescriptorOrder == <<2, 3, 1>>

\* the statement as written: one order of places for every artifact type, and
\* the first place where the artifact exists is used (for the descriptor it is
\* read for the runs in which every descriptor on disk can be loaded)
C25_OneOrderForAll ==
  vrun.mode = "discover" =>
    /\ \A s \in SidecarSuffixes :
         SkipLayerOf(s) \notin vrun.skip_layers => Discovered(s) = FirstPlace(s, ClaimedOrder, {})
    /\ vrun.unloadable = {} => Discovered("toml") = FirstPlace("toml", ClaimedOrder, {})

\* C25: auto-discovery settles each artifact type on its own: a hash sidecar
\* and the recovery file are taken from the first of the container's
\* directory, metadata beside it and <stem>/metadata where the file exists; the
\* descriptor is taken from the first of metadata, <stem>/metadata and the
\* container's directory where it exists and can be loaded
C25_FirstMatchPerArtifact ==
  vrun.mode = "discover" =>
    /\ \A s \in SidecarSuffixes :
         SkipLayerOf(s) \notin vrun.skip_layers => Discovered(s) = FirstPlace(s, ClaimedOrder, {})
    /\ Discovered("toml") = FirstPlace("toml", DescriptorOrder, vrun.unloadable)

\* every artifact lies in more than one place, the places of the artifacts
\* differ, and discovery took each from its own first place
C25_Witness ==
  /\ vrun.mode = "discover"
  /\ vrun.skip_layers = {}
  /\ \A s \in Artifacts :
       /\ Cardinality({i \in 1..3 : Exists(fs, ArtifactAt(VerifiedArchive, i, s))}) >= 2
       /\ Discovered(s) /= NoPath
  /\ Parent(Discovered("sha256")) /= Parent(Discovered("blake3"))
  /\ Discovered("toml") = ArtifactAt(VerifiedArchive, 2, "toml")
  /\ Exists(fs, ArtifactAt(VerifiedArchive, 1, "toml"))


\* ------------------------------------------------ what the rollback removes

\* the run was aborted by an exception that reached the scope, and cleaned up
AbortedAndCleanedUp == pc = "done" /\ result.status = "raised" /\ cleanup.ran

\* C26: after a run has been aborted and cleaned up, every file and directory
\* that was under the output directory when create_archive started is still
\* there with the contents it had (fs0 is the disk at the start of the run)
C26_RollbackKeepsPreexisting ==
  AbortedAndCleanedUp =>
    \A p \in Paths : (Under(OutDir, p) /\ fs0[p] /= 0) => fs[p] = fs0[p]


\* ------------------------------------------------ the files of a success result

\* created_files of a success result: the container, the hash sidecars, the
\* recovery files and the descriptor (NoPath is None)
ResultCreatedFiles(res) ==
  <<res.archive>> \o PathsOf(res.hash_files) \o res.par2_files \o <<res.metadata_file>>

\* C27: when create_archive has returned success, no entry of the result's
\* created_files is null, every entry is a file on disk, and the entries are
\* the container, one sidecar per hash algorithm, the recovery files of the
\* run and metadata.toml
C27_SuccessFilesExist ==
  (pc = "done" /\ result.status = "success") =>
    /\ \A i \in 1..Len(ResultCreatedFiles(result)) :
         /\ ResultCreatedFiles(result)[i] /= NoPath
         /\ Exists(fs, ResultCreatedFiles(result)[i])
    /\ Len(result.hash_files) = Len(Algorithms)
    /\ opts.generate_par2 => result.par2_files /= <<>>
    /\ NameOf(result.metadata_file) = TomlName


\* ------------------------------------------------ a run without a recovery set

\* the run got past the checks before the scope and every external tool and
\* check it called passed (no step failed, nothing interrupted it)
AllChecksPassed == pc = "done" /\ toolsOk /\ result.stage /= "validate"

\* C28: a run with recovery generation disabled and integrity verification
\* enabled in which the container self-test and both hash checks pass returns
\* success
C28_NoRecoverySetStillSucceeds ==
  (opts.verify_integrity /\ ~opts.generate_par2 /\ AllChecksPassed)
    => result.status = "success"


\* ------------------------------------------------ the resolver's settings are valid

\* C29: for every size of the source the resolver returns settings, and they
\* pass the validation of SevenZipSettings: a level from 1 to 9 and a
\* dictionary size of the allowed set
C29_ResolvedSettingsValid ==
  "optimize_7z" \in settings.applied =>
    /\ settings.sevenzip[2] /= "ValidationError"
    /\ settings.sevenzip[1] \in 1..9
    /\ settings.sevenzip[2] \in valid_sizes


\* ------------------------------------------------ the scratch directory

\* create_archive came back with a result, success or failure
Returned == pc = "done" /\ result.status \in {"success", "failed"}

\* C30: when the source is an archive file, the scratch directory the run
\* extracted it into is gone once create_archive has returned a result
C30_ScratchDirGone ==
  (opts.source_kind = "file" /\ Returned /\ result.stage /= "validate")
    => ~Exists(fs, TmpDir(run))

====
